---- MODULE Spec2Model ----
(***************************************************************************)
(* Model of src/scraper.py: one execution of main(), the resumable         *)
(* DuckDuckGo first-result scraper.  Text is modelled character by         *)
(* character (a string is a sequence of one-character strings), so that    *)
(* str.strip, csv.writer and csv.reader are modelled by what they do.      *)
(* The output file is its character content; "\n" stands for the line      *)
(* terminator as the text-mode reader of line 87 sees it.                  *)
(***************************************************************************)
EXTENDS Integers, Sequences, FiniteSets, TLC

VARIABLES inputFile, LIMIT, outFile, startOut, pc, all_queries,
          completed_queries, queries, i, url, processed, successful,
          driver, quitCount, failed, warned, searched, outcome, progress

vars == <<inputFile, LIMIT, outFile, startOut, pc, all_queries,
          completed_queries, queries, i, url, processed, successful,
          driver, quitCount, failed, warned, searched, outcome, progress>>

-----------------------------------------------------------------------------
(* Bounds of the model *)

MaxLines == 4

MaxLimit == 1

-----------------------------------------------------------------------------
(* Characters and strings *)

QUOTE == "\""

COMMA == ","

NL == "\n"

\* Stands for content on which csv.reader raises csv.Error while adding it
\* to the current field (a field larger than the field size limit).
BAD == "BAD"

EOL == "EOL"

IsWs(c) == c \in {" ", "\t", NL}

RECURSIVE lstrip(_)
lstrip(s) == IF s = <<>> THEN s
             ELSE IF IsWs(Head(s)) THEN lstrip(Tail(s)) ELSE s

RECURSIVE rstrip(_)
rstrip(s) == IF s = <<>> THEN s
             ELSE IF IsWs(s[Len(s)]) THEN rstrip(SubSeq(s, 1, Len(s) - 1)) ELSE s

strip(s) == rstrip(lstrip(s))

Sentinel == <<"T", "e", "x", "t", " ", "S", "e", "a", "r", "c", "h">>

HeaderRow == << <<"q", "u", "e", "r", "y">>, <<"u", "r", "l">> >>

IsPrefix(s, t) == Len(s) <= Len(t) /\ SubSeq(t, 1, Len(s)) = s

-----------------------------------------------------------------------------
(* csv.writer (default dialect: QUOTE_MINIMAL, doublequote) *)

NeedsQuote_unquoted(field) == FALSE

NeedsQuote(field) == \E k \in 1..Len(field) : field[k] \in {COMMA, QUOTE, NL, "\r"}

RECURSIVE DoubleQuotes(_)
DoubleQuotes(s) == IF s = <<>> THEN <<>>
                   ELSE IF Head(s) = QUOTE
                        THEN <<QUOTE, QUOTE>> \o DoubleQuotes(Tail(s))
                        ELSE <<Head(s)>> \o DoubleQuotes(Tail(s))

CsvField(field) == IF NeedsQuote(field)
                   THEN <<QUOTE>> \o DoubleQuotes(field) \o <<QUOTE>>
                   ELSE field

RECURSIVE JoinFields(_)
JoinFields(row) == IF Len(row) = 0 THEN <<>>
                   ELSE IF Len(row) = 1 THEN CsvField(row[1])
                   ELSE CsvField(row[1]) \o <<COMMA>> \o JoinFields(Tail(row))

writerow(row) == JoinFields(row) \o <<NL>>

-----------------------------------------------------------------------------
(* csv.reader (default dialect, non-strict): the parser's state machine *)

ParserInit == [state |-> "START_RECORD", field |-> <<>>, fields |-> <<>>,
               rows |-> <<>>, error |-> FALSE]

SaveField(p, st) == [p EXCEPT !.fields = Append(@, p.field), !.field = <<>>,
                                !.state = st]

AddChar(p, c, st, limit) ==
    IF limit /\ c = BAD THEN [p EXCEPT !.error = TRUE]
    ELSE [p EXCEPT !.field = Append(@, c), !.state = st]

AfterLineEnd(c) == IF c = EOL THEN "START_RECORD" ELSE "EAT_CRNL"

StartField(p, c, limit) ==
    IF c \in {NL, EOL} THEN SaveField(p, AfterLineEnd(c))
    ELSE IF c = QUOTE THEN [p EXCEPT !.state = "IN_QUOTED_FIELD"]
    ELSE IF c = COMMA THEN SaveField(p, "START_FIELD")
    ELSE AddChar(p, c, "IN_FIELD", limit)

ProcessChar(p, c, limit) ==
    CASE p.state = "START_RECORD" ->
           IF c = EOL THEN p
           ELSE IF c = NL THEN [p EXCEPT !.state = "EAT_CRNL"]
           ELSE StartField(p, c, limit)
      [] p.state = "START_FIELD" -> StartField(p, c, limit)
      [] p.state = "IN_FIELD" ->
           IF c \in {NL, EOL} THEN SaveField(p, AfterLineEnd(c))
           ELSE IF c = COMMA THEN SaveField(p, "START_FIELD")
           ELSE AddChar(p, c, "IN_FIELD", limit)
      [] p.state = "IN_QUOTED_FIELD" ->
           IF c = EOL THEN p
           ELSE IF c = QUOTE THEN [p EXCEPT !.state = "QUOTE_IN_QUOTED_FIELD"]
           ELSE AddChar(p, c, "IN_QUOTED_FIELD", limit)
      [] p.state = "QUOTE_IN_QUOTED_FIELD" ->
           IF c = QUOTE THEN AddChar(p, c, "IN_QUOTED_FIELD", limit)
           ELSE IF c = COMMA THEN SaveField(p, "START_FIELD")
           ELSE IF c \in {NL, EOL} THEN SaveField(p, AfterLineEnd(c))
           ELSE AddChar(p, c, "IN_FIELD", limit)
      [] p.state = "EAT_CRNL" ->
           IF c = NL THEN p
           ELSE IF c = EOL THEN [p EXCEPT !.state = "START_RECORD"]
           ELSE [p EXCEPT !.error = TRUE]

\* After a whole line was fed: the record is complete when the parser is
\* back in START_RECORD, and is then handed to the caller.
EndLine(p) == IF p.state = "START_RECORD" /\ ~p.error
              THEN [p EXCEPT !.rows = Append(@, p.fields), !.fields = <<>>]
              ELSE p

\* End of file: a pending field or an open quoted field is still returned.
EndFile(p) == IF ~p.error /\ (p.field # <<>> \/ p.state = "IN_QUOTED_FIELD")
              THEN [p EXCEPT !.rows = Append(@, Append(p.fields, p.field)),
                             !.fields = <<>>, !.field = <<>>]
              ELSE p

RECURSIVE Feed(_, _, _, _)
Feed(content, pos, p, limit) ==
    IF p.error THEN p
    ELSE IF pos > Len(content)
    THEN IF Len(content) > 0 /\ content[Len(content)] # NL
         THEN EndFile(EndLine(ProcessChar(p, EOL, limit)))
         ELSE EndFile(p)
    ELSE LET c  == content[pos]
             p1 == ProcessChar(p, c, limit)
             p2 == IF c = NL /\ ~p1.error
                   THEN EndLine(ProcessChar(p1, EOL, limit)) ELSE p1
         IN  Feed(content, pos + 1, p2, limit)

\* The rows the reader yields before it ends or raises, and whether it raised.
ParseCsv(content) == Feed(content, 1, ParserInit, TRUE)

-----------------------------------------------------------------------------
(* Files *)

NoFile == [exists |-> FALSE, data |-> <<>>]

File(d) == [exists |-> TRUE, data |-> d]

\* Lines an input file is made of: an empty line, a blank line, a padded
\* query, a query holding the delimiter and the quote character, the
\* sentinel and the padded sentinel.
EmptyLine == <<>>

BlankLine == <<" ">>

A == <<"a">>

PaddedA == <<" ", "a", " ">>

QC == <<"b", COMMA, QUOTE>>

X == <<"x">>

PaddedSentinel == Sentinel \o <<" ">>

FilesOf(lines) ==
    {NoFile} \cup {File(ls) : ls \in UNION {[1..n -> lines] : n \in 0..MaxLines}}

\* Input files of the executions of main().
InputFiles == FilesOf({PaddedA, X, QC})

\* Input files read_inputs is applied to on its own.
ReadInputFiles == FilesOf({EmptyLine, BlankLine, PaddedA, QC, Sentinel, PaddedSentinel})

U1 == <<"u">>

HeaderText == writerow(HeaderRow)

\* Output files found at startup: none, empty, header only (with and without
\* its line terminator), progress of an earlier run, an empty line and rows
\* of two queries, a file without header, and files the reader fails on.
OutFiles == {NoFile,
             File(<<>>),
             File(HeaderText),
             File(JoinFields(HeaderRow)),
             File(HeaderText \o writerow(<<A, U1>>)),
             File(HeaderText \o <<NL>> \o writerow(<<A, U1>>) \o writerow(<<X, <<>>>>)),
             File(writerow(<<A, U1>>)),
             File(<<BAD, NL>> \o writerow(<<A, U1>>)),
             File(HeaderText \o writerow(<<A, U1>>) \o <<BAD, NL>> \o writerow(<<QC, U1>>))}

-----------------------------------------------------------------------------
(* read_inputs *)

SkipLine_keepfirst(idx, line) == line = <<>> \/ line = Sentinel

SkipLine(idx, line) == line = <<>> \/ idx = 0 \/ line = Sentinel

RECURSIVE read_inputs_from(_, _, _)
read_inputs_from(lines, idx, acc) ==
    IF idx >= Len(lines) THEN acc
    ELSE LET line == strip(lines[idx + 1])
         IN  IF SkipLine(idx, line)
             THEN read_inputs_from(lines, idx + 1, acc)
             ELSE read_inputs_from(lines, idx + 1, Append(acc, line))

read_inputs(lines) == read_inputs_from(lines, 0, <<>>)

\* all_queries[:LIMIT] when LIMIT > 0
Truncate(qs, limit) ==
    IF limit > 0
    THEN SubSeq(qs, 1, IF limit < Len(qs) THEN limit ELSE Len(qs))
    ELSE qs

-----------------------------------------------------------------------------
(* load_completed_queries *)

OnReadError_empty(completed) == {}

\* The except branch prints the warning and falls through to the return.
OnReadError(completed) == completed

RECURSIVE AddRows(_, _, _)
AddRows(rows, k, completed) ==
    IF k > Len(rows) THEN completed
    ELSE IF rows[k] # <<>>
         THEN AddRows(rows, k + 1, completed \cup {rows[k][1]})
         ELSE AddRows(rows, k + 1, completed)

load_completed_queries(file) ==
    IF ~file.exists THEN [completed |-> {}, warned |-> FALSE]
    ELSE LET r    == ParseCsv(file.data)
             done == AddRows(r.rows, 2, {})
         IN  IF r.error
             THEN [completed |-> OnReadError(done), warned |-> TRUE]
             ELSE [completed |-> done, warned |-> FALSE]

-----------------------------------------------------------------------------
(* main *)

NotCompleted_all(q, completed) == TRUE

NotCompleted(q, completed) == q \notin completed

Remaining(all, completed) ==
    LET Keep(q) == NotCompleted(q, completed) IN SelectSeq(all, Keep)

NeedsHeader_always(file) == TRUE

\* not os.path.exists(OUTPUT_FILE) or os.path.getsize(OUTPUT_FILE) == 0
NeedsHeader(file) == ~file.exists \/ Len(file.data) = 0

AppendRow_truncating(file, row) == File(writerow(row))

\* open(OUTPUT_FILE, "a") and writer.writerow
AppendRow(file, row) == File(file.data \o writerow(row))

Outcomes == {"found", "timeout", "absent", "raise"}

Caught_timeout_only(o) == o = "timeout"

\* except TimeoutException / except NoSuchElementException
Caught(o) == o \in {"timeout", "absent"}

AfterRaise_nofinally == "done"

\* An exception leaving the try block runs the finally clause first.
AfterRaise == "finally"

\* The state of main() at its first line.
Fresh ==
    /\ pc = "start"
    /\ all_queries = <<>>
    /\ completed_queries = {}
    /\ queries = <<>>
    /\ i = 0
    /\ url = <<>>
    /\ processed = 0
    /\ successful = 0
    /\ driver = "none"
    /\ quitCount = 0
    /\ failed = FALSE
    /\ warned = FALSE
    /\ searched = <<>>
    /\ outcome = "none"
    /\ progress = <<>>

Init ==
    /\ inputFile \in InputFiles
    /\ LIMIT \in 0..MaxLimit
    /\ outFile \in OutFiles
    /\ startOut = outFile
    /\ Fresh

\* line 103: read_inputs(INPUT_FILE); open() raises when the file is missing
ReadInputs ==
    /\ pc = "start"
    /\ IF inputFile.exists
       THEN /\ all_queries' = read_inputs(inputFile.data)
            /\ pc' = "read"
            /\ UNCHANGED failed
       ELSE /\ failed' = TRUE
            /\ pc' = "done"
            /\ UNCHANGED all_queries
    /\ UNCHANGED <<inputFile, LIMIT, outFile, startOut, completed_queries,
                   queries, i, url, processed, successful, driver, quitCount,
                   warned, searched, outcome, progress>>

\* lines 104-108
ApplyLimit ==
    /\ pc = "read"
    /\ all_queries' = Truncate(all_queries, LIMIT)
    /\ pc' = "loaded"
    /\ UNCHANGED <<inputFile, LIMIT, outFile, startOut, completed_queries,
                   queries, i, url, processed, successful, driver, quitCount,
                   failed, warned, searched, outcome, progress>>

\* lines 111-113
LoadCompleted ==
    /\ pc = "loaded"
    /\ LET r == load_completed_queries(outFile)
       IN  /\ completed_queries' = r.completed
           /\ warned' = r.warned
    /\ pc' = "resumed"
    /\ UNCHANGED <<inputFile, LIMIT, outFile, startOut, all_queries, queries,
                   i, url, processed, successful, driver, quitCount, failed,
                   searched, outcome, progress>>

\* lines 116-121
FilterQueries ==
    /\ pc = "resumed"
    /\ queries' = Remaining(all_queries, completed_queries)
    /\ pc' = IF queries' = <<>> THEN "done" ELSE "filtered"
    /\ UNCHANGED <<inputFile, LIMIT, outFile, startOut, all_queries,
                   completed_queries, i, url, processed, successful, driver,
                   quitCount, failed, warned, searched, outcome, progress>>

\* lines 124-127
EnsureHeader ==
    /\ pc = "filtered"
    /\ outFile' = IF NeedsHeader(outFile) THEN File(writerow(HeaderRow)) ELSE outFile
    /\ pc' = "header"
    /\ UNCHANGED <<inputFile, LIMIT, startOut, all_queries, completed_queries,
                   queries, i, url, processed, successful, driver, quitCount,
                   failed, warned, searched, outcome, progress>>

\* lines 130-134: webdriver.Chrome may raise, outside the try block
CreateDriver ==
    /\ pc = "header"
    /\ \/ /\ driver' = "open"
          /\ i' = 1
          /\ pc' = "loop"
          /\ UNCHANGED failed
       \/ /\ failed' = TRUE
          /\ pc' = "done"
          /\ UNCHANGED <<driver, i>>
    /\ UNCHANGED <<inputFile, LIMIT, outFile, startOut, all_queries,
                   completed_queries, queries, url, processed, successful,
                   quitCount, warned, searched, outcome, progress>>

\* lines 137-146, with search_duckduckgo (lines 37-64)
Search ==
    /\ pc = "loop"
    /\ \E o \in Outcomes :
         /\ outcome' = o
         /\ progress' = <<Cardinality(completed_queries) + i, Len(all_queries)>>
         /\ searched' = Append(searched, queries[i])
         /\ IF o = "found" \/ Caught(o)
            THEN /\ url' = IF o = "found" THEN U1 ELSE <<>>
                 /\ processed' = processed + 1
                 /\ successful' = IF url' # <<>> THEN successful + 1 ELSE successful
                 /\ pc' = "write"
                 /\ UNCHANGED failed
            ELSE /\ failed' = TRUE
                 /\ pc' = AfterRaise
                 /\ UNCHANGED <<url, processed, successful>>
    /\ UNCHANGED <<inputFile, LIMIT, outFile, startOut, all_queries,
                   completed_queries, queries, i, driver, quitCount, warned>>

\* lines 149-155, and the loop's next iteration or exit
WriteRow ==
    /\ pc = "write"
    /\ outFile' = AppendRow(outFile, <<queries[i], url>>)
    /\ IF i < Len(queries)
       THEN /\ i' = i + 1
            /\ pc' = "loop"
       ELSE /\ pc' = "finally"
            /\ UNCHANGED i
    /\ UNCHANGED <<inputFile, LIMIT, startOut, all_queries, completed_queries,
                   queries, url, processed, successful, driver, quitCount,
                   failed, warned, searched, outcome, progress>>

\* lines 157-159
Finally ==
    /\ pc = "finally"
    /\ driver' = "quit"
    /\ quitCount' = quitCount + 1
    /\ pc' = IF failed THEN "done" ELSE "summary"
    /\ UNCHANGED <<inputFile, LIMIT, outFile, startOut, all_queries,
                   completed_queries, queries, i, url, processed, successful,
                   failed, warned, searched, outcome, progress>>

\* lines 161-162
Summary ==
    /\ pc = "summary"
    /\ progress' = <<Cardinality(completed_queries) + processed, Len(all_queries)>>
    /\ pc' = "done"
    /\ UNCHANGED <<inputFile, LIMIT, outFile, startOut, all_queries,
                   completed_queries, queries, i, url, processed, successful,
                   driver, quitCount, failed, warned, searched, outcome>>

Next ==
    \/ ReadInputs
    \/ ApplyLimit
    \/ LoadCompleted
    \/ FilterQueries
    \/ EnsureHeader
    \/ CreateDriver
    \/ Search
    \/ WriteRow
    \/ Finally
    \/ Summary

Spec == Init /\ [][Next]_vars

\* read_inputs and the truncation applied to every input file of ReadInputFiles.
InitRead ==
    /\ inputFile \in ReadInputFiles
    /\ LIMIT \in 0..MaxLimit
    /\ outFile = NoFile
    /\ startOut = outFile
    /\ Fresh

NextRead ==
    \/ ReadInputs
    \/ ApplyLimit

SpecRead == InitRead /\ [][NextRead]_vars

-----------------------------------------------------------------------------
(* Vocabulary of the properties *)

\* main() returned normally / the process ended.
NormalEnd == pc = "done" /\ ~failed

\* The content the rows of this execution are written after: what the file
\* held at startup, or the header line when it was missing or empty.
RunBase == IF startOut.exists /\ startOut.data # <<>> THEN startOut.data ELSE HeaderText

AppendedOk == outFile = startOut \/ (outFile.exists /\ IsPrefix(RunBase, outFile.data))

\* The rows of the text this execution appended, as csv.reader reads them.
AppendedRows ==
    IF outFile = startOut \/ ~AppendedOk THEN <<>>
    ELSE ParseCsv(SubSeq(outFile.data, Len(RunBase) + 1, Len(outFile.data))).rows

\* First fields of the data rows (all rows but the first) among rows.
FirstFields(rows) == {rows[k][1] : k \in {j \in 2..Len(rows) : rows[j] # <<>>}}

\* Queries recorded in the data rows of a file, whether or not a reader
\* gets past every row of it.
RecordedIn(file) ==
    IF ~file.exists THEN {} ELSE FirstFields(Feed(file.data, 1, ParserInit, FALSE).rows)

\* Queries recorded in the data rows the reader yields before it ends or raises.
RecordedRead(file) ==
    IF ~file.exists THEN {} ELSE FirstFields(ParseCsv(file.data).rows)

Without(qs, recorded) == LET Keep(q) == q \notin recorded IN SelectSeq(qs, Keep)

-----------------------------------------------------------------------------
(* C1: a run that ends without an uncaught failure has appended exactly one
   row per remaining query (the loaded, truncated queries that are not in
   the completed set), the k-th row carrying the k-th remaining query, and
   nothing else. *)
C1_OneRowPerRemainingQuery ==
    NormalEnd =>
        LET R    == Without(all_queries, completed_queries)
            rows == AppendedRows
        IN  /\ AppendedOk
            /\ Len(rows) = Len(R)
            /\ \A k \in 1..Len(rows) : Len(rows[k]) = 2 /\ rows[k][1] = R[k]

C1_Witness ==
    /\ NormalEnd
    /\ Len(AppendedRows) = 2
    /\ AppendedRows[2][1] = QC

(* C2 as stated: the queries searched are the loaded queries that are not the
   first field of any data row of the output file at startup, in input order. *)
C2_SearchesUnrecordedOfFile ==
    searched # <<>> \/ NormalEnd =>
        LET E == Without(all_queries, RecordedIn(startOut))
        IN  /\ IsPrefix(searched, E)
            /\ (NormalEnd => searched = E /\ Len(AppendedRows) = Len(E))

(* C2, amended: the queries searched are the loaded queries that are not the
   first field of any data row load_completed_queries read from the output
   file before its read ended or failed, in input order. *)
C2_SearchesUnrecordedAsRead ==
    searched # <<>> \/ NormalEnd =>
        LET E == Without(all_queries, RecordedRead(startOut))
        IN  /\ IsPrefix(searched, E)
            /\ (NormalEnd => searched = E /\ Len(AppendedRows) = Len(E))

C2_Witness ==
    /\ NormalEnd
    /\ ~warned
    /\ completed_queries = {A, X}
    /\ all_queries = <<A, X, QC>>
    /\ searched = <<QC>>
    /\ Len(AppendedRows) = 1

(* C3: in a run that starts without an output file, the output file never
   holds two data rows with the same query field. *)
C3_NoDuplicateRows ==
    ~startOut.exists =>
        LET rows == Feed(outFile.data, 1, ParserInit, FALSE).rows
        IN  \A j, k \in 2..Len(rows) :
                (j < k /\ rows[j] # <<>> /\ rows[k] # <<>>) => rows[j][1] # rows[k][1]

(* C4 as stated: driver.quit runs exactly once in every execution, here one
   that completes normally. *)
C4_QuitExactlyOnce == NormalEnd => quitCount = 1

(* C4, amended: driver.quit runs at most once; when the process ends it has
   run exactly once if the driver was created, whether processing succeeded
   or raised, and not at all if the process ended before creating it. *)
C4_QuitOnceIfCreated ==
    /\ quitCount <= 1
    /\ (driver = "quit") = (quitCount = 1)
    /\ pc = "done" => (driver # "open" /\ (searched # <<>> => quitCount = 1))
    /\ (pc = "done" /\ (~inputFile.exists \/ queries = <<>>)) => quitCount = 0

C4_Witness == pc = "done" /\ failed /\ searched # <<>> /\ quitCount = 1

(* C5 as stated: load_completed_queries returns the empty set whenever
   reading the output file fails. *)
C5_EmptyOnReadFailure == (pc = "resumed" /\ warned) => completed_queries = {}

(* C5, amended: load_completed_queries never raises; it returns the empty set
   when the file does not exist, and otherwise the first fields of the data
   rows read before the read ended or failed. *)
C5_ReadRowsKeptOnFailure ==
    pc = "resumed" =>
        /\ ~failed
        /\ completed_queries = RecordedRead(startOut)
        /\ (~startOut.exists => completed_queries = {} /\ ~warned)
        /\ warned = (startOut.exists /\ ParseCsv(startOut.data).error)

C5_Witness == pc = "resumed" /\ warned /\ completed_queries = {A}

(* C6: a search that ends in a timeout or an absent element returns the
   empty string, its row (query, "") is appended, and main() goes on with
   the next remaining query. *)
C6_EmptyUrlRowWritten ==
    outcome \in {"timeout", "absent"} =>
        LET k    == Len(searched)
            rows == AppendedRows
        IN  /\ ~failed
            /\ url = <<>>
            /\ AppendedOk
            /\ pc = "write" => Len(rows) = k - 1
            /\ pc # "write" => (Len(rows) = k /\ rows[k] = <<searched[k], <<>>>>)
            /\ k < Len(queries) => (pc = "write" \/ (pc = "loop" /\ i = k + 1))

C6_Witness == outcome = "absent" /\ pc = "loop" /\ Len(AppendedRows) = 1

(* C7: an output file that exists and is not empty at startup stays a prefix
   of the file at every step; the header is written only over a missing or
   empty file. *)
C7_ExistingContentKept ==
    /\ (startOut.exists /\ startOut.data # <<>>) =>
           (outFile.exists /\ IsPrefix(startOut.data, outFile.data))
    /\ (pc = "header" /\ outFile # startOut) =>
           (~startOut.exists \/ startOut.data = <<>>)

C7_Witness ==
    /\ startOut.exists
    /\ startOut.data # <<>>
    /\ pc = "done"
    /\ Len(outFile.data) > Len(startOut.data)

(* C8: read_inputs returns the lines after the first that are, once
   trimmed, neither empty nor the sentinel: trimmed, once each, in order. *)
C8_ReadInputs ==
    pc = "read" =>
        LET ls      == inputFile.data
            Keep(l) == strip(l) # <<>> /\ strip(l) # Sentinel
            kept    == SelectSeq(SubSeq(ls, 2, Len(ls)), Keep)
        IN  all_queries = [k \in 1..Len(kept) |-> strip(kept[k])]

C8_Witness ==
    /\ pc = "read"
    /\ Len(inputFile.data) = 3
    /\ inputFile.data = <<PaddedA, PaddedSentinel, PaddedA>>
    /\ all_queries = <<A>>

(* C9: when the search of the k-th remaining query raises, the process ends
   with the rows of the first k-1 remaining queries in the file, none for
   the k-th or a later query, and the driver released; each row is in the
   file before the next search starts. *)
C9_FailureKeepsFlushedRows ==
    /\ (pc = "done" /\ failed /\ searched # <<>>) =>
           LET k    == Len(searched)
               rows == AppendedRows
           IN  /\ driver = "quit"
               /\ quitCount = 1
               /\ AppendedOk
               /\ Len(rows) = k - 1
               /\ \A j \in 1..(k - 1) : rows[j][1] = queries[j]
    /\ pc = "loop" => (AppendedOk /\ Len(AppendedRows) = i - 1)

C9_Witness ==
    /\ pc = "done"
    /\ failed
    /\ Len(searched) = 2
    /\ Len(AppendedRows) = 1

(* C10: at every progress line and in the final summary the cumulative
   completed count does not exceed the total of loaded queries. *)
C10_ProgressWithinTotal == progress # <<>> => progress[1] <= progress[2]

====
